---- MODULE Spec2Model ----
(***************************************************************************)
(* Model of the serial capture session of eRobot:                          *)
(*   src/main.py                          the driver script                *)
(*   src/src/python/analog_data_collector.py   ArduinoDataCollector        *)
(*   src/src/python/datastructure_lib.py  the recording folder, log.json   *)
(*                                                                         *)
(* A text line is a sequence of tokens.  Each token stands for a run of    *)
(* characters of the real line ("INIT-COM", "Format:", a blank, a comma, a *)
(* digit, a letter), chosen so that no token is a prefix of another: the   *)
(* string operations of the code (strip, startswith, replace, split,       *)
(* float) are computed on the token sequence as Python computes them on    *)
(* the characters.                                                         *)
(***************************************************************************)
EXTENDS Integers, Sequences, FiniteSets, TLC

(* ------------------------------ bounds -------------------------------- *)
\* lines the operating system holds for the host at one time
MaxQueue == 1
\* the device stops sending once this many records have been accepted
MaxRecords == 2
\* the wall clock stops advancing here
MaxClock == 120
\* the wall clock advances in steps of this many seconds
TickStep == 60
\* the longest sequence of sampling intervals drawn for write_metafile
MaxIntervals == 3

(* ------------------------- program constants -------------------------- *)
\* self.handshake_timeout = 100
handshake_timeout == 100

\* the values of buffer_size passed to the constructor
BufferSizes == {0, 1, 2}
\* the values of duration passed to read_sensor_data: <<>> is None
Durations == {<<>>, <<0>>, <<60>>}

(* ------------------------------- lines -------------------------------- *)
SP == " "
COMMA == ","
DOT == "."
Digits == {"0", "1", "2", "5"}

INIT_COM == <<"INIT-COM">>
STOP_COM == <<"STOP-COM">>
FormatPrefix == <<"Format:">>
FormatPrefixSpace == <<"Format:", SP>>
READY == <<"READY">>

\* the lines the device may send (before the host strips them)
Lines ==
  { INIT_COM,
    <<"INIT-COM", "x">>,
    <<"Format:", SP, "a", COMMA, "b">>,
    <<"Format:", "a", COMMA, "b">>,
    <<"Format:", SP, "a", COMMA, "a">>,
    <<"1", COMMA, "2">>,
    <<"2", COMMA, "1", SP>>,
    <<"1", COMMA, "x">>,
    <<"1">>,
    STOP_COM }

\* the lines the device may send to a caller other than main.py: among them
\* a data line delimited by a blank and a line of one blank
LinesApi ==
  { INIT_COM,
    <<"Format:", SP, "a", COMMA, "b">>,
    <<"Format:", SP, "a", COMMA, "a">>,
    <<"1", COMMA, "2">>,
    <<"1", SP, "2">>,
    <<"1">>,
    <<SP>>,
    STOP_COM }

(* ------------------------ string operations --------------------------- *)
\* str.startswith
StartsWith(s, p) == Len(s) >= Len(p) /\ SubSeq(s, 1, Len(p)) = p

RECURSIVE LStrip(_)
LStrip(s) == IF s # <<>> /\ Head(s) = SP THEN LStrip(Tail(s)) ELSE s

RECURSIVE RStrip(_)
RStrip(s) ==
  IF s # <<>> /\ s[Len(s)] = SP THEN RStrip(SubSeq(s, 1, Len(s) - 1)) ELSE s

\* str.strip
Strip(s) == RStrip(LStrip(s))

\* str.replace(old, ""), every occurrence, left to right
RECURSIVE Remove(_, _)
Remove(s, old) ==
  IF Len(s) < Len(old) THEN s
  ELSE IF StartsWith(s, old)
       THEN Remove(SubSeq(s, Len(old) + 1, Len(s)), old)
       ELSE <<Head(s)>> \o Remove(Tail(s), old)

\* a split that returns no field for the empty string, as str.split() does
Split_Mut(s) == IF s = <<>> THEN <<>> ELSE <<s>>

\* str.split(","): the fields between the commas, empty ones included
RECURSIVE Split(_)
Split(s) ==
  IF \A i \in 1..Len(s) : s[i] # COMMA THEN <<s>>
  ELSE LET i == CHOOSE k \in 1..Len(s) :
                  s[k] = COMMA /\ \A j \in 1..(k - 1) : s[j] # COMMA
       IN <<SubSeq(s, 1, i - 1)>> \o Split(SubSeq(s, i + 1, Len(s)))

\* A float is held in fixed point: Scale units make 1.0.  The lines of the
\* model carry at most one digit after the point, so every value is exact.
Scale == 10

\* float(value) succeeds: blanks around the literal are allowed, the literal
\* is digits with at most one point and at least one digit
IsFloat(f) ==
  LET t == Strip(f)
  IN /\ \E i \in 1..Len(t) : t[i] \in Digits
     /\ \A i \in 1..Len(t) : t[i] \in Digits \cup {DOT}
     /\ \A i, j \in 1..Len(t) : t[i] = DOT /\ t[j] = DOT => i = j

DigitValue(d) == CASE d = "0" -> 0 [] d = "1" -> 1 [] d = "2" -> 2 [] OTHER -> 5

RECURSIVE Decimal(_)
Decimal(t) ==
  IF t = <<>> THEN 0
  ELSE 10 * Decimal(SubSeq(t, 1, Len(t) - 1)) + DigitValue(t[Len(t)])

\* float(value), in units of 1/Scale
FloatValue(f) ==
  LET t == Strip(f)
      p == IF \E i \in 1..Len(t) : t[i] = DOT
           THEN CHOOSE i \in 1..Len(t) : t[i] = DOT ELSE Len(t) + 1
      frac == SubSeq(t, p + 1, Len(t))
  IN Scale * Decimal(SubSeq(t, 1, p - 1))
       + (IF frac = <<>> THEN 0 ELSE DigitValue(frac[1]))

(* ------------------------------ records ------------------------------- *)
\* A dict is the sequence of its items in insertion order.
DictKeys(d) == [i \in 1..Len(d) |-> d[i].key]

\* d[k] = v: an existing key keeps its place
DictPut(d, k, v) ==
  IF \E i \in 1..Len(d) : d[i].key = k
  THEN [i \in 1..Len(d) |-> IF d[i].key = k THEN [key |-> k, val |-> v] ELSE d[i]]
  ELSE Append(d, [key |-> k, val |-> v])

\* MakeRow with every value taken from the first field
MakeRow_Mut(cols, parts) ==
  [i \in 1..(IF Len(cols) < Len(parts) THEN Len(cols) ELSE Len(parts)) |->
     [key |-> cols[i], val |-> FloatValue(parts[1])]]

\* {col: float(value) for col, value in zip(columns, parts)}
RECURSIVE MakeRow(_, _)
MakeRow(cols, parts) ==
  IF cols = <<>> \/ parts = <<>> THEN <<>>
  ELSE LET n == IF Len(cols) < Len(parts) THEN Len(cols) ELSE Len(parts)
       IN DictPut(MakeRow(SubSeq(cols, 1, n - 1), SubSeq(parts, 1, n - 1)),
                  cols[n], FloatValue(parts[n]))

\* the field count test with <= for ==
FieldCountMatches_Mut(parts, cols) == Len(parts) <= Len(cols)

\* len(parts) == len(self.columns)
FieldCountMatches(parts, cols) == Len(parts) = Len(cols)

\* some float(value) of the comprehension raises ValueError
RowRaises(cols, parts) ==
  \E i \in 1..Len(parts) : i <= Len(cols) /\ ~IsFloat(parts[i])

(* ----------------------------- DataFrame ------------------------------ *)
\* self.data: None, or a frame of named columns and rows
NoData == [none |-> TRUE, columns |-> <<>>, rows |-> <<>>]
EmptyFrame(cols) == [none |-> FALSE, columns |-> cols, rows |-> <<>>]

\* DataFrame.empty: some axis has length 0
FrameEmpty(df) == df.columns = <<>> \/ df.rows = <<>>

RECURSIVE UnionKeys(_, _)
UnionKeys(cols, ks) ==
  IF ks = <<>> THEN cols
  ELSE UnionKeys(IF \E i \in 1..Len(cols) : cols[i] = Head(ks)
                 THEN cols ELSE Append(cols, Head(ks)), Tail(ks))

RECURSIVE FrameColumns(_, _)
FrameColumns(cols, rows) ==
  IF rows = <<>> THEN cols
  ELSE FrameColumns(UnionKeys(cols, DictKeys(Head(rows))), Tail(rows))

\* pd.DataFrame(self.buffer)
FrameOf(buf) == [none |-> FALSE, columns |-> FrameColumns(<<>>, buf), rows |-> buf]

\* pd.concat([df, other], ignore_index=True)
Concat(df, other) ==
  [none |-> FALSE,
   columns |-> UnionKeys(df.columns, other.columns),
   rows |-> df.rows \o other.rows]

\* the flush with the batch put before the data
FlushedData_Mut(df, buf) ==
  IF df.none \/ FrameEmpty(df) THEN FrameOf(buf) ELSE Concat(FrameOf(buf), df)

\* the value flush_buffer_to_dataframe assigns to self.data
FlushedData(df, buf) ==
  IF df.none \/ FrameEmpty(df) THEN FrameOf(buf) ELSE Concat(df, FrameOf(buf))

(* ------------------------------ data.csv ------------------------------ *)
\* A file is empty (as create_recording_structure leaves it), a table of a
\* header and rows of cells, or unreadable.  A cell is a number, or text
\* that is no number.
CsvEmpty == [kind |-> "empty", header |-> <<>>, rows |-> <<>>]
CsvUnreadable == [kind |-> "unreadable", header |-> <<>>, rows |-> <<>>]
NumCell(v) == [text |-> FALSE, v |-> v]
TextCell == [text |-> TRUE, v |-> 0]

\* the value a row holds for a column
ValueAt(row, c) == row[CHOOSE k \in 1..Len(row) : row[k].key = c].val

\* self.data.to_csv(filename, index=False)
ToCsv(df) ==
  [kind |-> "table",
   header |-> df.columns,
   rows |-> [i \in 1..Len(df.rows) |->
               [j \in 1..Len(df.columns) |->
                  NumCell(ValueAt(df.rows[i], df.columns[j]))]]]

\* the file store_data leaves: nothing is written for no data
StoredCsv(df, old) == IF ~df.none /\ ~FrameEmpty(df) THEN ToCsv(df) ELSE old

(* ---------------------------- write_metafile -------------------------- *)
\* the column name write_metafile reads
TIME == <<"time">>

\* pd.read_csv(csv_file) raises: no file, no columns to parse, no table
ReadCsvRaises(f) == f.kind # "table"

\* df['time'] raises KeyError
TimeKeyError(f) == \A j \in 1..Len(f.header) : f.header[j] # TIME

\* df['time']
TimeColumn(f) ==
  LET j == CHOOSE k \in 1..Len(f.header) : f.header[k] = TIME
  IN [i \in 1..Len(f.rows) |-> f.rows[i][j]]

\* astype that takes text for a number
AstypeRaises_Mut(col) == FALSE

\* .astype(float) raises ValueError
AstypeRaises(col) == \E i \in 1..Len(col) : col[i].text

\* df['time'].astype(float).tolist()
TimeList(f) == [i \in 1..Len(f.rows) |-> TimeColumn(f)[i].v]

\* the differences with the first value taken against 0
Diff_Mut(t) == [i \in 1..Len(t) |-> t[i] - (IF i = 1 THEN 0 ELSE t[i - 1])]

\* np.diff
Diff(t) == [i \in 1..(Len(t) - 1) |-> t[i + 1] - t[i]]

RECURSIVE Insert(_, _)
Insert(s, v) ==
  IF s = <<>> THEN <<v>>
  ELSE IF v <= Head(s) THEN <<v>> \o s ELSE <<Head(s)>> \o Insert(Tail(s), v)

RECURSIVE Sort(_)
Sort(x) == IF x = <<>> THEN <<>> ELSE Insert(Sort(Tail(x)), Head(x))

\* twice np.median(x) of a non-empty x: the middle of the sorted values, or
\* the mean of the two middle ones
Median2(x) ==
  LET s == Sort(x)
      n == Len(x)
  IN IF n % 2 = 1 THEN 2 * s[(n + 1) \div 2] ELSE s[n \div 2] + s[n \div 2 + 1]

\* the count with >= for >
MissingPoints_Mut(x) ==
  Cardinality({i \in 1..Len(x) : 4 * x[i] >= 3 * Median2(x)})

\* int(sum(sampling_intervals > 1.5 * np.median(sampling_intervals))); of no
\* interval the median is nan and the sum is over no element
MissingPoints(x) ==
  Cardinality({i \in 1..Len(x) : 4 * x[i] > 3 * Median2(x)})

\* int(sum(sampling_intervals <= 0))
DuplicatedPoints(x) == Cardinality({i \in 1..Len(x) : x[i] <= 0})

RECURSIVE Sum(_)
Sum(x) == IF x = <<>> THEN 0 ELSE Head(x) + Sum(Tail(x))

RECURSIVE SumSq(_)
SumSq(x) == IF x = <<>> THEN 0 ELSE Head(x) * Head(x) + SumSq(Tail(x))

\* A statistic is the literal 0 of the else branch ("zero"), the quotient
\* num / den of two integers ("ratio"), or the inf numpy returns for a
\* division by zero ("inf").
Zero == [kind |-> "zero", num |-> 0, den |-> 1]
Ratio(n, d) == [kind |-> "ratio", num |-> n, den |-> d]
Inf == [kind |-> "inf", num |-> 1, den |-> 0]

\* average_sampling_frequency: 1 / np.mean(sampling_intervals) * 1e6, the
\* intervals being in units of 1/Scale
Frequency(x) ==
  IF Len(x) > 0
  THEN IF Sum(x) = 0 THEN Inf ELSE Ratio(1000000 * Scale * Len(x), Sum(x))
  ELSE Zero

\* sampling_stats: mean, min and max in units of 1/Scale, std_dev as the
\* variance np.std takes the root of
SamplingStats(x) ==
  IF Len(x) > 0
  THEN [mean |-> Ratio(Sum(x), Len(x)),
        variance |-> Ratio(Len(x) * SumSq(x) - Sum(x) * Sum(x), Len(x) * Len(x)),
        min |-> Ratio(Sort(x)[1], 1),
        max |-> Ratio(Sort(x)[Len(x)], 1)]
  ELSE [mean |-> Zero, variance |-> Zero, min |-> Zero, max |-> Zero]

\* log.json as create_recording_structure leaves it: a line of text
LogPlaceholder ==
  [written |-> FALSE, recorded_data |-> <<>>, data_points_count |-> 0,
   average_sampling_frequency_hz |-> Zero,
   sampling_stats_micros |-> SamplingStats(<<>>),
   missing_data_points |-> 0, duplicated_data_points |-> 0]

\* the metadata json.dump writes (the fields taken from ts are left out)
Metadata(f) ==
  LET sampling_intervals == Diff(TimeList(f))
  IN [written |-> TRUE,
      recorded_data |-> f.header,
      data_points_count |-> Len(f.rows),
      average_sampling_frequency_hz |-> Frequency(sampling_intervals),
      sampling_stats_micros |-> SamplingStats(sampling_intervals),
      missing_data_points |-> MissingPoints(sampling_intervals),
      duplicated_data_points |-> DuplicatedPoints(sampling_intervals)]

\* the clause write_metafile leaves through
MetafileOutcome(f) ==
  IF ReadCsvRaises(f) THEN "metafile_error"
  ELSE IF TimeKeyError(f) THEN "metafile_key_error"
  ELSE IF AstypeRaises(TimeColumn(f)) THEN "metafile_error"
  ELSE "metafile_written"

(* ------------------------------- state -------------------------------- *)
VARIABLES
  pc,           \* the statement the host executes next
  connection,   \* self.connection: "None", "open" or "closed"
  columns,      \* self.columns
  data,         \* self.data
  buffer,       \* self.buffer
  buffer_size,  \* self.buffer_size
  duration,     \* the duration argument of read_sensor_data
  start_time,   \* the local start_time of the running method
  now,          \* time.time()
  rx,           \* lines received by the serial port and not yet read
  tx,           \* lines written to the serial port
  raw_data,     \* the local raw_data of read_sensor_data: the last line
                \* read, while the loop that reads it runs
  exit,         \* how the loop of read_sensor_data was left
  raised,       \* the exception in flight or that left a method, or "None"
  accepted,     \* history: the rows appended to self.buffer
  batches,      \* history: the buffers handed to self.data, one per flush
  csv,          \* the file data.csv of the recording folder
  log,          \* the file log.json of the recording folder
  script        \* the lines a scripted device has still to send

vars == <<pc, connection, columns, data, buffer, buffer_size, duration,
          start_time, now, rx, tx, raw_data, exit, raised, accepted,
                 batches, csv, log, script>>

host == <<pc, connection, columns, data, buffer, buffer_size, duration,
          start_time, tx, raw_data, exit, raised, accepted,
                 batches, csv, log, script>>

Init ==
  /\ pc = "connect"
  /\ connection = "None"
  /\ columns = <<>>
  /\ data = NoData
  /\ buffer = <<>>
  /\ buffer_size \in BufferSizes
  /\ duration \in Durations
  /\ start_time = 0
  /\ now = 0
  /\ rx = <<>>
  /\ tx = <<>>
  /\ raw_data = <<>>
  /\ exit = "none"
  /\ raised = "None"
  /\ accepted = <<>>
  /\ batches = <<>>
  /\ csv = CsvEmpty
  /\ log = LogPlaceholder
  /\ script = <<>>

(* ---------------------------- environment ----------------------------- *)
\* the host process has not ended
Running == pc \notin {"done", "crashed"}

\* the device sends one line; the port receives it while it is open
DeviceSend ==
  /\ Running
  /\ connection = "open"
  /\ Len(rx) < MaxQueue
  /\ Len(accepted) < MaxRecords
  /\ \E l \in Lines : rx' = Append(rx, l)
  /\ UNCHANGED <<host, now>>

\* a statement that reads time.time() can still be reached
ClockObserved ==
  pc \in {"connect", "await_handshake_enter", "await_handshake",
          "process_format_message", "read_sensor_data", "loop", "size_check",
          "flush_loop", "clear_loop"}

\* the wall clock advances (followed as long as the host can observe it)
Tick ==
  /\ ClockObserved
  /\ now < MaxClock
  /\ now' = now + TickStep
  /\ UNCHANGED <<host, rx>>

\* connection.readline().decode('utf-8').strip()
ReadLine == Strip(Head(rx))

(* -------------------------------- main -------------------------------- *)
\* collector.connect(): serial.Serial(...) opens the port
Connect ==
  /\ pc = "connect"
  /\ connection' = "open"
  /\ pc' = "await_handshake_enter"
  /\ UNCHANGED <<columns, data, buffer, buffer_size, duration, start_time,
                 now, rx, tx, raw_data, exit, raised, accepted,
                 batches, csv, log, script>>

\* collector.connect(): serial.Serial(...) raises, connect re-raises
ConnectFail ==
  /\ pc = "connect"
  /\ raised' = "SerialException"
  /\ pc' = "crashed"
  /\ UNCHANGED <<connection, columns, data, buffer, buffer_size, duration,
                 start_time, now, rx, tx, raw_data, exit, accepted,
                 batches, csv, log, script>>

(* -------------------------- await_handshake --------------------------- *)
\* start_time = time.time()
AwaitHandshakeEnter ==
  /\ pc = "await_handshake_enter"
  /\ start_time' = now
  /\ pc' = "await_handshake"
  /\ UNCHANGED <<connection, columns, data, buffer, buffer_size, duration,
                 now, rx, tx, raw_data, exit, raised, accepted,
                 batches, csv, log, script>>

\* the handshake test left out: any line is taken for the handshake
IsHandshake_Mut(message) == message = message

\* message.startswith("INIT-COM")
IsHandshake(message) == StartsWith(message, INIT_COM)

\* time.time() - start_time > self.handshake_timeout
HandshakeTimedOut == now - start_time > handshake_timeout

\* one iteration of the loop of await_handshake
AwaitHandshake ==
  /\ pc = "await_handshake"
  /\ IF rx # <<>> /\ IsHandshake(ReadLine)
     THEN /\ rx' = Tail(rx)
          /\ tx' = Append(tx, READY)
          /\ pc' = "process_format_message"
          /\ UNCHANGED raised
     ELSE /\ rx' = IF rx # <<>> THEN Tail(rx) ELSE rx
          /\ tx' = tx
          /\ IF HandshakeTimedOut
             THEN raised' = "TimeoutError" /\ pc' = "crashed"
             ELSE UNCHANGED <<raised, pc>>
  /\ UNCHANGED <<connection, columns, data, buffer, buffer_size, duration,
                 start_time, now, raw_data, exit, accepted,
                 batches, csv, log, script>>

(* ----------------------- process_format_message ----------------------- *)
\* format_message.startswith("Format:")
IsFormat(message) == StartsWith(message, FormatPrefix)

\* format_message.replace("Format: ", "").split(",")
ParseFormat(message) == Split(Remove(message, FormatPrefixSpace))

\* one iteration of the loop of process_format_message that reads a line
\* process_format_message with the timeout of await_handshake
ProcessFormatMessage_Mut ==
  /\ pc = "process_format_message"
  /\ IF rx # <<>> /\ IsFormat(ReadLine)
     THEN /\ rx' = Tail(rx)
          /\ columns' = ParseFormat(ReadLine)
          /\ data' = EmptyFrame(columns')
          /\ pc' = "read_sensor_data"
          /\ UNCHANGED raised
     ELSE /\ rx' = IF rx # <<>> THEN Tail(rx) ELSE rx
          /\ UNCHANGED <<columns, data>>
          /\ IF HandshakeTimedOut
             THEN raised' = "TimeoutError" /\ pc' = "crashed"
             ELSE UNCHANGED <<raised, pc>>
  /\ UNCHANGED <<connection, buffer, buffer_size, duration, start_time, now,
                 tx, raw_data, exit, accepted,
                 batches, csv, log, script>>

\* one iteration of the while True loop that reads a line
ProcessFormatMessage ==
  /\ pc = "process_format_message"
  /\ rx # <<>>
  /\ rx' = Tail(rx)
  /\ IF IsFormat(ReadLine)
     THEN /\ columns' = ParseFormat(ReadLine)
          /\ data' = EmptyFrame(columns')
          /\ pc' = "read_sensor_data"
     ELSE UNCHANGED <<columns, data, pc>>
  /\ UNCHANGED <<connection, buffer, buffer_size, duration, start_time, now,
                 tx, raw_data, exit, raised, accepted,
                 batches, csv, log, script>>

(* -------------------------- read_sensor_data -------------------------- *)
\* start_time = time.time(); sample_count = 0
ReadSensorDataEnter ==
  /\ pc = "read_sensor_data"
  /\ start_time' = now
  /\ pc' = "loop"
  /\ UNCHANGED <<connection, columns, data, buffer, buffer_size, duration,
                 now, rx, tx, raw_data, exit, raised, accepted,
                 batches, csv, log, script>>

\* duration and (time.time() - start_time) >= duration
DurationElapsed ==
  /\ duration # <<>>
  /\ duration[1] # 0
  /\ now - start_time >= duration[1]

\* the stop test left out
IsStop_Mut(line) == line # line

\* raw_data == "STOP-COM"
IsStop(line) == line = STOP_COM

\* one iteration of the while loop, up to self.buffer.append(row)
LoopStep ==
  /\ pc = "loop"
  /\ IF DurationElapsed
     THEN /\ exit' = "duration"
          /\ pc' = "flush_final"
          /\ raw_data' = <<>>
          /\ UNCHANGED <<rx, buffer, accepted, raised>>
     ELSE /\ rx # <<>>
          /\ rx' = Tail(rx)
          /\ raw_data' = IF IsStop(ReadLine)
                             \/ (FieldCountMatches(Split(ReadLine), columns)
                                   /\ RowRaises(columns, Split(ReadLine)))
                          THEN <<>> ELSE ReadLine
          /\ LET parts == Split(ReadLine)
             IN IF IsStop(ReadLine)
                THEN /\ exit' = "stop"
                     /\ pc' = "flush_final"
                     /\ UNCHANGED <<buffer, accepted, raised>>
                ELSE IF FieldCountMatches(parts, columns)
                THEN IF RowRaises(columns, parts)
                     THEN /\ raised' = "ValueError"
                          /\ exit' = "error"
                          /\ pc' = "flush_final"
                          /\ UNCHANGED <<buffer, accepted>>
                     ELSE /\ buffer' = Append(buffer, MakeRow(columns, parts))
                          /\ accepted' = Append(accepted, MakeRow(columns, parts))
                          /\ pc' = "size_check"
                          /\ UNCHANGED <<exit, raised>>
                ELSE UNCHANGED <<pc, buffer, accepted, exit, raised>>
  /\ UNCHANGED <<connection, columns, data, buffer_size, duration,
                 start_time, now, tx, batches, csv, log, script>>

\* self.connection.in_waiting or readline raises: the exception passes the
\* except clause and enters the finally clause
ReadFail ==
  /\ pc = "loop"
  /\ ~DurationElapsed
  /\ raised' = "SerialException"
  /\ exit' = "error"
  /\ raw_data' = <<>>
  /\ pc' = "flush_final"
  /\ UNCHANGED <<connection, columns, data, buffer, buffer_size, duration,
                 start_time, now, rx, tx, accepted,
                 batches, csv, log, script>>

\* the capacity test with > for >=
BufferFull_Mut == Len(buffer) > buffer_size

\* len(self.buffer) >= self.buffer_size
BufferFull == Len(buffer) >= buffer_size

\* if len(self.buffer) >= self.buffer_size: self.flush_buffer_to_dataframe()
SizeCheck ==
  /\ pc = "size_check"
  /\ pc' = IF BufferFull THEN "flush_loop" ELSE "loop"
  /\ UNCHANGED <<connection, columns, data, buffer, buffer_size, duration,
                 start_time, now, rx, tx, raw_data, exit, raised, accepted,
                 batches, csv, log, script>>

\* the flush without its test of self.buffer
FlushAssign_Mut(at, clear, back) ==
  /\ pc = at
  /\ data' = FlushedData(data, buffer)
  /\ batches' = Append(batches, buffer)
  /\ pc' = clear
  /\ UNCHANGED <<connection, columns, buffer, buffer_size, duration,
                 start_time, now, rx, tx, raw_data, exit, raised, accepted,
                 csv, log, script>>

\* flush_buffer_to_dataframe, up to the assignment of self.data
FlushAssign(at, clear, back) ==
  /\ pc = at
  /\ IF buffer # <<>>
     THEN /\ data' = FlushedData(data, buffer)
          /\ batches' = Append(batches, buffer)
          /\ pc' = clear
     ELSE UNCHANGED <<data, batches>> /\ pc' = back
  /\ UNCHANGED <<connection, columns, buffer, buffer_size, duration,
                 start_time, now, rx, tx, raw_data, exit, raised, accepted,
                 csv, log, script>>

\* flush_buffer_to_dataframe: self.buffer = []
FlushClear(at, back) ==
  /\ pc = at
  /\ buffer' = <<>>
  /\ pc' = back
  /\ UNCHANGED <<connection, columns, data, buffer_size, duration,
                 start_time, now, rx, tx, raw_data, exit, raised, accepted,
                 batches, csv, log, script>>

\* pd.DataFrame or pd.concat raises in flush_buffer_to_dataframe.  In the
\* loop the exception enters the finally clause; in the finally clause it
\* leaves read_sensor_data at once, past close_connection, and main catches
\* it.
FlushFail ==
  /\ pc \in {"flush_loop", "flush_final"}
  /\ buffer # <<>>
  /\ raised' = "MemoryError"
  /\ IF pc = "flush_loop"
     THEN exit' = "error" /\ pc' = "flush_final"
     ELSE exit' = exit /\ pc' = "store_data"
  /\ raw_data' = <<>>
  /\ start_time' = IF pc = "flush_loop" THEN start_time ELSE 0
  /\ UNCHANGED <<connection, columns, data, buffer, buffer_size, duration,
                 now, rx, tx, accepted,
                 batches, csv, log, script>>

\* the flush of the loop
FlushLoop == FlushAssign("flush_loop", "clear_loop", "loop")
ClearLoop == FlushClear("clear_loop", "loop")

\* the flush of the finally clause
FlushFinal == FlushAssign("flush_final", "clear_final", "close_connection")
ClearFinal == FlushClear("clear_final", "close_connection")

\* the statements of the try body
InTry == pc \in {"loop", "size_check", "flush_loop", "clear_loop"}

\* the statements of the finally clause
InFinally == pc \in {"flush_final", "clear_final", "close_connection"}

\* KeyboardInterrupt with a finally clause that only closes
Interrupt_Mut ==
  /\ InTry
  /\ exit' = "interrupt"
  /\ raw_data' = <<>>
  /\ pc' = "close_connection"
  /\ UNCHANGED <<connection, columns, data, buffer, buffer_size, duration,
                 start_time, now, rx, tx, raised, accepted,
                 batches, csv, log, script>>

\* KeyboardInterrupt in the try body: except KeyboardInterrupt, then finally
Interrupt ==
  /\ InTry
  /\ exit' = "interrupt"
  /\ raw_data' = <<>>
  /\ pc' = "flush_final"
  /\ UNCHANGED <<connection, columns, data, buffer, buffer_size, duration,
                 start_time, now, rx, tx, raised, accepted,
                 batches, csv, log, script>>

\* KeyboardInterrupt in the finally clause: it leaves read_sensor_data, and
\* main's except Exception does not catch it
InterruptFinally ==
  /\ InFinally
  /\ raised' = "KeyboardInterrupt"
  /\ raw_data' = <<>>
  /\ start_time' = 0
  /\ pc' = "crashed"
  /\ UNCHANGED <<connection, columns, data, buffer, buffer_size, duration,
                 now, rx, tx, exit, accepted,
                 batches, csv, log, script>>

\* close_connection
Closed(c) == IF c = "open" THEN "closed" ELSE c

\* self.close_connection() of the finally clause; read_sensor_data then
\* returns, or re-raises the exception in flight into main's except Exception,
\* and its locals are gone
CloseConnection ==
  /\ pc = "close_connection"
  /\ connection' = Closed(connection)
  /\ raw_data' = <<>>
  /\ start_time' = 0
  /\ pc' = "store_data"
  /\ UNCHANGED <<columns, data, buffer, buffer_size, duration,
                 now, rx, tx, exit, raised, accepted,
                 batches, csv, log, script>>

(* ---------------------------- end of main ----------------------------- *)
\* collector.store_data(fullpath)
StoreData ==
  /\ pc = "store_data"
  /\ csv' = StoredCsv(data, csv)
  /\ pc' = "close_main"
  /\ UNCHANGED <<connection, columns, data, buffer, buffer_size, duration,
                 start_time, now, rx, tx, raw_data, exit, raised, accepted,
                 batches, log, script>>

\* collector.close_connection()
CloseMain ==
  /\ pc = "close_main"
  /\ connection' = Closed(connection)
  /\ pc' = "done"
  /\ UNCHANGED <<columns, data, buffer, buffer_size, duration, start_time,
                 now, rx, tx, raw_data, exit, raised, accepted,
                 batches, csv, log, script>>

Next ==
  \/ DeviceSend
  \/ Tick
  \/ Connect
  \/ ConnectFail
  \/ AwaitHandshakeEnter
  \/ AwaitHandshake
  \/ ProcessFormatMessage
  \/ ReadSensorDataEnter
  \/ LoopStep
  \/ ReadFail
  \/ SizeCheck
  \/ FlushFail
  \/ FlushLoop
  \/ ClearLoop
  \/ FlushFinal
  \/ ClearFinal
  \/ Interrupt
  \/ InterruptFinally
  \/ CloseConnection
  \/ StoreData
  \/ CloseMain

Spec == Init /\ [][Next]_vars

(* ------------------- a caller other than main.py ---------------------- *)
\* process_format_message is called again after it has returned, before
\* read_sensor_data is called
ProcessFormatAgain ==
  /\ pc = "read_sensor_data"
  /\ pc' = "process_format_message"
  /\ UNCHANGED <<connection, columns, data, buffer, buffer_size, duration,
                 start_time, now, rx, tx, raw_data, exit, raised, accepted,
                 batches, csv, log, script>>

\* read_sensor_data is called without a call of process_format_message
SkipFormat ==
  /\ pc = "process_format_message"
  /\ columns = <<>>
  /\ pc' = "read_sensor_data"
  /\ UNCHANGED <<connection, columns, data, buffer, buffer_size, duration,
                 start_time, now, rx, tx, raw_data, exit, raised, accepted,
                 batches, csv, log, script>>

\* the device sends one line to this caller
DeviceSendApi ==
  /\ Running
  /\ connection = "open"
  /\ Len(rx) < MaxQueue
  /\ Len(accepted) < MaxRecords
  /\ \E l \in LinesApi : rx' = Append(rx, l)
  /\ UNCHANGED <<host, now>>

NextApi ==
  \/ DeviceSendApi
  \/ Tick
  \/ Connect
  \/ ConnectFail
  \/ AwaitHandshakeEnter
  \/ AwaitHandshake
  \/ ProcessFormatMessage
  \/ ProcessFormatAgain
  \/ SkipFormat
  \/ ReadSensorDataEnter
  \/ LoopStep
  \/ ReadFail
  \/ SizeCheck
  \/ FlushFail
  \/ FlushLoop
  \/ ClearLoop
  \/ FlushFinal
  \/ ClearFinal
  \/ Interrupt
  \/ InterruptFinally
  \/ CloseConnection
  \/ StoreData
  \/ CloseMain

SpecApi == Init /\ [][NextApi]_vars

(* ------------------------- the statistics step ------------------------ *)
\* write_metafile(folder_path, ts) on the recording folder of the session:
\* it reads data.csv and writes log.json, or prints the error it caught
WriteMetafile ==
  /\ pc = "done"
  /\ pc' = MetafileOutcome(csv)
  /\ log' = IF MetafileOutcome(csv) = "metafile_written" THEN Metadata(csv) ELSE log
  /\ UNCHANGED <<connection, columns, data, buffer, buffer_size, duration,
                 start_time, now, rx, tx, raw_data, exit, raised, accepted,
                 batches, csv, script>>

(* ------------------------ a scripted session -------------------------- *)
\* the lines of a device that announces the columns time and volt, sends
\* two records and stops
ScriptE2E ==
  << INIT_COM,
     <<"Format:", SP, "time", COMMA, "volt">>,
     <<"0", COMMA, "1", DOT, "0">>,
     <<"1", COMMA, "2", DOT, "5">>,
     STOP_COM >>

\* the device sends the next line of its script
DeviceSendScript ==
  /\ Running
  /\ connection = "open"
  /\ Len(rx) < MaxQueue
  /\ script # <<>>
  /\ rx' = Append(rx, Head(script))
  /\ script' = Tail(script)
  /\ UNCHANGED <<pc, connection, columns, data, buffer, buffer_size, duration,
                 start_time, now, tx, raw_data, exit, raised, accepted,
                 batches, csv, log>>

InitE2E ==
  /\ pc = "connect"
  /\ connection = "None"
  /\ columns = <<>>
  /\ data = NoData
  /\ buffer = <<>>
  /\ buffer_size \in BufferSizes
  /\ duration \in Durations
  /\ start_time = 0
  /\ now = 0
  /\ rx = <<>>
  /\ tx = <<>>
  /\ raw_data = <<>>
  /\ exit = "none"
  /\ raised = "None"
  /\ accepted = <<>>
  /\ batches = <<>>
  /\ csv = CsvEmpty
  /\ log = LogPlaceholder
  /\ script = ScriptE2E

\* main.py with the scripted device, then the statistics step
NextE2E ==
  \/ DeviceSendScript
  \/ Tick
  \/ Connect
  \/ AwaitHandshakeEnter
  \/ AwaitHandshake
  \/ ProcessFormatMessage
  \/ ReadSensorDataEnter
  \/ LoopStep
  \/ SizeCheck
  \/ FlushLoop
  \/ ClearLoop
  \/ FlushFinal
  \/ ClearFinal
  \/ CloseConnection
  \/ StoreData
  \/ CloseMain
  \/ WriteMetafile

SpecE2E == InitE2E /\ [][NextE2E]_vars

TypeOK ==
  /\ connection \in {"None", "open", "closed"}
  /\ exit \in {"none", "duration", "stop", "interrupt", "error"}
  /\ raised \in {"None", "SerialException", "TimeoutError", "ValueError",
                 "KeyboardInterrupt", "MemoryError"}
  /\ Len(rx) <= MaxQueue

(* --------------------- write_metafile on its own ---------------------- *)
\* the sampling intervals the recordings are drawn from, in microseconds
IntervalValues == {-5, 0, 10, 40}
ExampleIntervals == <<10, 10, 10, 40, 10, -5>>
IntervalSeqs ==
  UNION {[1..n -> IntervalValues] : n \in 0..MaxIntervals} \cup {ExampleIntervals}

\* the time stamps of a recording that starts at 0
Times(iv) == [i \in 1..(Len(iv) + 1) |-> Scale * Sum(SubSeq(iv, 1, i - 1))]

\* data.csv with two columns, the first filled from cells
TableOf(header, cells) ==
  [kind |-> "table", header |-> header,
   rows |-> [i \in 1..Len(cells) |-> <<cells[i], NumCell(0)>>]]

NumCells(t) == [i \in 1..Len(t) |-> NumCell(t[i])]

\* the files write_metafile is applied to: recordings of time and volt with
\* no, one or more records, a recording without a time column, one with
\* text in the time column, the empty file and an unreadable one
CsvInputs ==
  {TableOf(<<TIME, <<"volt">>>>, NumCells(Times(iv))) : iv \in IntervalSeqs}
  \cup {TableOf(<<TIME, <<"volt">>>>, <<>>),
        TableOf(<< <<"a">>, <<"b">> >>, NumCells(Times(<<10>>))),
        TableOf(<< <<"volt">>, TIME >>, NumCells(Times(<<10>>))),
        TableOf(<<TIME, <<"volt">>>>, <<NumCell(0), TextCell>>),
        CsvEmpty, CsvUnreadable}

InitStats ==
  /\ pc = "done"
  /\ connection = "closed"
  /\ columns = <<>>
  /\ data = NoData
  /\ buffer = <<>>
  /\ buffer_size = 1
  /\ duration = <<>>
  /\ start_time = 0
  /\ now = 0
  /\ rx = <<>>
  /\ tx = <<>>
  /\ raw_data = <<>>
  /\ exit = "none"
  /\ raised = "None"
  /\ accepted = <<>>
  /\ batches = <<>>
  /\ csv \in CsvInputs
  /\ log = LogPlaceholder
  /\ script = <<>>

NextStats == WriteMetafile

SpecStats == InitStats /\ [][NextStats]_vars

(* ============================== claims ================================ *)
\* the loop of read_sensor_data reads a line in this step
LoopReads == pc = "loop" /\ rx # <<>> /\ rx' = Tail(rx)

\* the line the next readline returns
NextLine == Strip(Head(rx))

\* no column name occurs twice
Distinct(cols) ==
  \A i, j \in 1..Len(cols) : i # j => cols[i] # cols[j]

\* read_sensor_data has returned to main without an exception
Returned == pc = "store_data" /\ raised = "None"

(* C1: when read_sensor_data returns after the duration elapsed, a stop   *)
(* line or an operator interrupt, the buffer is empty and self.data holds *)
(* exactly the records accepted into the buffer, in number and content.   *)
C1_NoRecordLost ==
  (Returned /\ exit \in {"duration", "stop", "interrupt"})
    => (buffer = <<>> /\ ~data.none /\ data.rows = accepted)

\* one step of the size test and of the flush, as C2 describes them
C2_Step ==
  /\ (pc = "size_check" /\ pc' \in {"flush_loop", "loop"})
       => (pc' = "flush_loop" <=> Len(buffer) = buffer_size)
  /\ (\/ pc \in {"flush_loop", "clear_loop"} /\ pc' = "loop"
      \/ pc \in {"flush_final", "clear_final"} /\ pc' = "close_connection")
       => Len(buffer') = 0

C3_MalformedDiscarded ==
  [][(LoopReads
      /\ Len(Split(NextLine)) = Len(columns)
      /\ \E i \in 1..Len(Split(NextLine)) : ~IsFloat(Split(NextLine)[i]))
     => (buffer' = buffer /\ raised' = "None" /\ pc' = "loop")]_vars

(* C4: a data line other than the stop token whose field count differs   *)
(* from the Schema's leaves buffer and self.data unchanged, raises        *)
(* nothing, and the loop goes on polling.                                 *)
C4_MismatchDiscarded ==
  [][(LoopReads
      /\ NextLine # STOP_COM
      /\ Len(Split(NextLine)) # Len(columns))
     => (/\ buffer' = buffer
         /\ data' = data
         /\ accepted' = accepted
         /\ raised' = raised
         /\ exit' = exit
         /\ pc' = "loop")]_vars

\* the last line read had the wrong field count and the loop still polls
C4_Witness ==
  /\ pc = "loop"
  /\ columns # <<>>
  /\ raw_data # <<>>
  /\ raw_data # STOP_COM
  /\ Len(Split(raw_data)) # Len(columns)
  /\ exit = "none"
  /\ raised = "None"

\* the Record C5 expects of a line: the i-th column with the i-th value
ExpectedRow(cols, line) ==
  [i \in 1..Len(cols) |-> [key |-> cols[i], val |-> FloatValue(Split(line)[i])]]

\* the step C5 is about: a line of numbers with the Schema's field count
C5_ValidLine ==
  /\ LoopReads
  /\ NextLine # STOP_COM
  /\ Len(Split(NextLine)) = Len(columns)
  /\ \A i \in 1..Len(Split(NextLine)) : IsFloat(Split(NextLine)[i])

(* C5 as stated: for every Schema, a line of numbers with the Schema's    *)
(* field count appends exactly one Record whose keys are the columns in   *)
(* order and whose i-th value is the number of the i-th field.            *)
C5_Original ==
  [][C5_ValidLine
     => buffer' = Append(buffer, ExpectedRow(columns, NextLine))]_vars

(* C5 amended: the same for every Schema whose column names are distinct. *)
C5_OneRecord ==
  [][(C5_ValidLine /\ Distinct(columns))
     => (/\ buffer' = Append(buffer, ExpectedRow(columns, NextLine))
         /\ DictKeys(buffer'[Len(buffer')]) = columns)]_vars

\* the line "2,1" was read under the Schema [a, b] and gave {a: 2, b: 1}
C5_Witness ==
  /\ columns = << <<"a">>, <<"b">> >>
  /\ raw_data = <<"2", COMMA, "1">>
  /\ buffer = << << [key |-> <<"a">>, val |-> 2 * Scale],
                    [key |-> <<"b">>, val |-> 1 * Scale] >> >>

(* C6: when the handshake times out, await_handshake fails with a timeout *)
(* error, the transport is closed and no Schema is set.                   *)
C6_TimeoutClosesTransport ==
  raised = "TimeoutError" => (connection = "closed" /\ columns = <<>>)

(* C7: READY is written exactly once, only after a line starting with     *)
(* INIT-COM was read; a line read before it that does not match is        *)
(* dropped with no write and no change of Schema, buffer or data; and     *)
(* await_handshake returns right after the acknowledgment.                *)
C7_AckOnce ==
  /\ [](/\ Len(tx) <= 1
        /\ pc \in {"connect", "await_handshake_enter", "await_handshake"}
             => tx = <<>>
        /\ pc \notin {"connect", "await_handshake_enter", "await_handshake",
                      "crashed"}
             => tx = <<READY>>)
  /\ [][/\ tx' # tx
             => (/\ pc = "await_handshake"
                 /\ rx # <<>>
                 /\ StartsWith(NextLine, INIT_COM)
                 /\ rx' = Tail(rx)
                 /\ tx' = <<READY>>
                 /\ pc' = "process_format_message")
        /\ (pc = "await_handshake" /\ rx # <<>> /\ rx' = Tail(rx)
            /\ ~StartsWith(NextLine, INIT_COM))
             => UNCHANGED <<tx, columns, buffer, data>>]_vars

\* the acknowledgment was written and await_handshake has returned
C7_Witness ==
  /\ pc = "process_format_message"
  /\ tx = <<READY>>
  /\ now > start_time

\* the text after the format prefix and one blank, if any
AfterPrefix(line) ==
  LET rest == SubSeq(line, Len(FormatPrefix) + 1, Len(line))
  IN IF rest # <<>> /\ Head(rest) = SP THEN Tail(rest) ELSE rest

(* C8: a line starting with "Format:", with or without a blank after the  *)
(* colon, commits as Schema the comma-separated names after the prefix,   *)
(* the prefix removed from the first name; other lines leave the Schema   *)
(* unset.                                                                 *)
C8_FormatCommitted ==
  [][(pc = "process_format_message" /\ rx # <<>> /\ rx' = Tail(rx))
     => IF StartsWith(NextLine, FormatPrefix)
        THEN columns' = Split(AfterPrefix(NextLine))
        ELSE columns' = <<>>]_vars

(* C9: a line equal to STOP-COM ends the capture: it produces no Record,  *)
(* and no line is read from the transport or accepted after it.           *)
C9_StopEndsCapture ==
  /\ [][(LoopReads /\ NextLine = STOP_COM)
        => (/\ buffer' = buffer
            /\ accepted' = accepted
            /\ exit' = "stop"
            /\ pc' = "flush_final")]_vars
  /\ [][exit = "stop"
        => (/\ ~(rx # <<>> /\ rx' = Tail(rx))
            /\ accepted' = accepted
            /\ exit' = "stop")]_vars

\* the session ended on a stop line with a line still queued behind it
C9_Witness ==
  /\ pc = "done"
  /\ exit = "stop"
  /\ rx # <<>>
  /\ accepted # <<>>

(* C10: for every duration that is set, 0 included, an iteration that     *)
(* starts with the elapsed time at or over the limit reads no line and    *)
(* leaves the loop.                                                       *)
C10_DurationStops ==
  [][(pc = "loop" /\ duration # <<>> /\ now - start_time >= duration[1])
     => (/\ ~(rx # <<>> /\ rx' = Tail(rx))
         /\ pc' # pc => pc' = "flush_final")]_vars

(* ---------------------------------------------------------------------- *)
\* C11: a KeyboardInterrupt that arrives in the try body of
\* read_sensor_data is caught there: the step raises nothing, changes
\* neither the buffer, the data nor the connection, and enters the finally
\* clause at its flush, exactly where the expiry of the duration enters it.
\* The finally clause closes only after its flush has emptied the buffer,
\* and when read_sensor_data returns after an interrupt the buffer is
\* empty and the connection is closed.
C11_InterruptFinalizes ==
  /\ [][exit = "none" /\ exit' \in {"interrupt", "duration"}
         => /\ InTry
            /\ raised' = "None"
            /\ pc' = "flush_final"
            /\ UNCHANGED <<buffer, data, connection>>]_vars
  /\ [](pc = "close_connection" => buffer = <<>>)
  /\ [](exit = "interrupt" /\ Returned
         => connection = "closed" /\ buffer = <<>>)

\* an interrupt ended the capture with a partial buffer, which the finally
\* clause flushed before it closed
C11_Witness ==
  /\ exit = "interrupt" /\ Returned
  /\ connection = "closed"
  /\ batches # <<>>
  /\ Len(batches[Len(batches)]) < buffer_size

(* ---------------------------------------------------------------------- *)
\* C12: whenever read_sensor_data has left with an exception that main
\* catches, the connection is closed.
C12_ErrorClosesTransport ==
  pc = "store_data" /\ raised # "None" => connection = "closed"

(* ---------------------------------------------------------------------- *)
\* the i-th of the batches of k records that a sequence is cut into
Batch(seq, k, i) ==
  SubSeq(seq, (i - 1) * k + 1, IF i * k < Len(seq) THEN i * k ELSE Len(seq))

Record(t, v) == <<[key |-> <<"time">>, val |-> t], [key |-> <<"volt">>, val |-> v]>>

\* C14: in the scripted session (INIT-COM, "Format: time,volt", "0,1.0",
\* "1,2.5", STOP-COM), once STOP-COM has ended the capture and the
\* statistics step has run: READY was written once, the columns are time
\* and volt, the data and data.csv hold the two records in order, the
\* connection is closed, and the metadata is written from exactly one
\* interval, of 1.0.
C14_EndToEnd ==
  pc \in {"metafile_written", "metafile_key_error", "metafile_error"}
    /\ exit = "stop"
  => /\ tx = <<READY>>
     /\ columns = << <<"time">>, <<"volt">> >>
     /\ data.rows = <<Record(0, Scale), Record(Scale, 2 * Scale + 5)>>
     /\ accepted = data.rows
     /\ csv = ToCsv(data)
     /\ connection = "closed"
     /\ pc = "metafile_written"
     /\ log.written
     /\ log.data_points_count = 2
     /\ log.sampling_stats_micros.min = Ratio(Scale, 1)
     /\ log.sampling_stats_micros.max = Ratio(Scale, 1)
     /\ log.sampling_stats_micros.mean = Ratio(Scale, 1)
     /\ log.missing_data_points = 0
     /\ log.duplicated_data_points = 0

\* the scripted session ran to STOP-COM and its metadata is written
C14_Witness ==
  /\ pc = "metafile_written"
  /\ exit = "stop"
  /\ log.data_points_count = 2
  /\ script = <<>>

(* ---------------------------------------------------------------------- *)
\* the i-th sampling interval of a recording whose first column is time
IntervalAt(f, i) == f.rows[i + 1][1].v - f.rows[i][1].v
IntervalCount(f) == IF f.rows = <<>> THEN 0 ELSE Len(f.rows) - 1

\* the k-th smallest sampling interval
OrderStat(f, k) ==
  CHOOSE v \in {IntervalAt(f, i) : i \in 1..IntervalCount(f)} :
    /\ Cardinality({i \in 1..IntervalCount(f) : IntervalAt(f, i) < v}) < k
    /\ Cardinality({i \in 1..IntervalCount(f) : IntervalAt(f, i) <= v}) >= k

\* twice the median of the sampling intervals
TwiceMedian(f) ==
  LET n == IntervalCount(f)
  IN IF n % 2 = 1 THEN 2 * OrderStat(f, (n + 1) \div 2)
     ELSE OrderStat(f, n \div 2) + OrderStat(f, n \div 2 + 1)

\* write_metafile has written the metadata of a recording of time and volt
StatsWritten == pc = "metafile_written" /\ csv.header[1] = TIME

\* C15: in the metadata write_metafile writes, missing_data_points is the
\* number of sampling intervals strictly greater than 1.5 times their
\* median and duplicated_data_points is the number of sampling intervals
\* that are <= 0; for the intervals 10, 10, 10, 40, 10, -5 they are 1 and 1.
C15_MissingAndDuplicated ==
  StatsWritten
  => /\ log.missing_data_points =
          Cardinality({i \in 1..IntervalCount(csv) :
                         4 * IntervalAt(csv, i) > 3 * TwiceMedian(csv)})
     /\ log.duplicated_data_points =
          Cardinality({i \in 1..IntervalCount(csv) : IntervalAt(csv, i) <= 0})
     /\ csv.rows = TableOf(csv.header, NumCells(Times(ExampleIntervals))).rows
        => log.missing_data_points = 1 /\ log.duplicated_data_points = 1

\* the metadata of the recording with the intervals 10, 10, 10, 40, 10, -5
C15_Witness ==
  /\ StatsWritten
  /\ log.data_points_count = 7
  /\ log.missing_data_points = 1
  /\ log.duplicated_data_points = 1

(* ---------------------------------------------------------------------- *)
\* the sum of the sampling intervals: the last time stamp less the first
IntervalSum(f) == f.rows[Len(f.rows)][1].v - f.rows[1][1].v

\* C16: in the metadata write_metafile writes, the frequency and the four
\* interval statistics are the literal 0 for a recording of no or one
\* record; for two or more records the frequency is a quotient with a
\* divisor that is not zero, equal to 1e6 divided by the mean interval.
C16_FrequencyDefined ==
  StatsWritten
  => /\ Len(csv.rows) <= 1
        => /\ log.average_sampling_frequency_hz = Zero
           /\ log.sampling_stats_micros =
                [mean |-> Zero, variance |-> Zero, min |-> Zero, max |-> Zero]
     /\ Len(csv.rows) >= 2
        => /\ log.average_sampling_frequency_hz.kind = "ratio"
           /\ log.average_sampling_frequency_hz.den # 0
           /\ log.average_sampling_frequency_hz.num * IntervalSum(csv)
                = 1000000 * Scale * IntervalCount(csv)
                    * log.average_sampling_frequency_hz.den

(* ---------------------------------------------------------------------- *)
\* data.csv cannot be read as a table, has no column time, or holds text
\* in its column time
Unusable(f) ==
  \/ f.kind # "table"
  \/ \A j \in 1..Len(f.header) : f.header[j] # <<"time">>
  \/ \E i \in 1..Len(f.rows) : \E j \in 1..Len(f.header) :
        f.header[j] = <<"time">> /\ f.rows[i][j].text

\* C17: write_metafile on a data.csv that cannot be read, that has no
\* column time or that holds text in its column time leaves through one
\* of its except clauses: it raises nothing and log.json is not written.
\* On any other data.csv it writes log.json.
C17_FailureWritesNothing ==
  /\ [][pc = "done" /\ pc' # "done"
         => /\ raised' = raised
            /\ IF Unusable(csv)
               THEN pc' \in {"metafile_error", "metafile_key_error"} /\ log' = log
               ELSE pc' = "metafile_written" /\ log'.written]_vars
  /\ [](pc \in {"metafile_error", "metafile_key_error"}
         => raised = "None" /\ log = LogPlaceholder)

\* text in the column time: the error was caught, log.json is untouched
C17_Witness ==
  /\ pc = "metafile_error"
  /\ csv.kind = "table"
  /\ ~TimeKeyError(csv)
  /\ log = LogPlaceholder

(* ---------------------------------------------------------------------- *)
\* C18: once self.columns is set, no step changes it, and no step takes a
\* row out of self.data, whatever line arrives and whichever method the
\* caller calls, a second process_format_message included.
C18_SchemaImmutable ==
  [][columns # <<>>
     => /\ columns' = columns
        /\ Len(data'.rows) >= Len(data.rows)
        /\ SubSeq(data'.rows, 1, Len(data.rows)) = data.rows]_vars

(* ---------------------------------------------------------------------- *)
\* C19: when serial.Serial cannot open the port, connect leaves with
\* ConnectionError and the collector is as constructed: no connection, no
\* columns, no data, an empty buffer.
C19_ConnectFailure ==
  [][pc = "connect" /\ pc' = "crashed"
     => /\ raised' = "ConnectionError"
        /\ connection' = "None"
        /\ columns' = <<>>
        /\ data' = NoData
        /\ buffer' = <<>>]_vars

(* ---------------------------------------------------------------------- *)
\* C20: between the statements of main and of read_sensor_data (a flush
\* counted as one statement), the rows of self.data followed by the rows
\* of self.buffer are the accepted records in the order of their arrival.
C20_PersistedThenBuffered ==
  pc \notin {"clear_loop", "clear_final"} => data.rows \o buffer = accepted

(* ---------------------------------------------------------------------- *)
\* C21: no record is in the buffer or among the accepted ones while
\* self.columns is unset: no step taken with the columns unset accepts a
\* record, a line read by the loop of read_sensor_data with the columns
\* unset (a blank line included) is discarded unless it is STOP-COM, and a
\* session that ended in the handshake's TimeoutError has accepted nothing.
C21_NoRecordBeforeSchema ==
  /\ [](columns = <<>> => buffer = <<>> /\ accepted = <<>> /\ data.rows = <<>>)
  /\ [](raised = "TimeoutError" => accepted = <<>>)
  /\ [][columns = <<>> => accepted' = <<>> /\ buffer' = <<>>]_vars
  /\ [][LoopReads /\ columns = <<>> /\ NextLine # STOP_COM
         => pc' = "loop" /\ raised' = raised /\ exit' = exit]_vars

\* read_sensor_data runs with the columns unset and has discarded a line
C21_Witness ==
  /\ pc = "loop"
  /\ columns = <<>>
  /\ raw_data = <<"1", SP, "2">>
  /\ accepted = <<>>

(* ---------------------------------------------------------------------- *)
\* C22: process_format_message is left by one step only, the read of a
\* line that starts with "Format:", which returns to main with no
\* exception: while no such line is read the call goes on, however long
\* the clock has run.  A line that starts with "Format:" and is read by
\* await_handshake is consumed there and sets no columns.
C22_FormatWaitUnbounded ==
  /\ [][pc = "process_format_message" /\ pc' # pc
         => /\ rx # <<>>
            /\ StartsWith(NextLine, FormatPrefix)
            /\ rx' = Tail(rx)
            /\ pc' = "read_sensor_data"
            /\ raised' = "None"]_vars
  /\ [][/\ pc = "await_handshake"
         /\ rx # <<>> /\ StartsWith(NextLine, FormatPrefix)
         /\ rx' = Tail(rx)
         => columns' = <<>> /\ pc' \in {"await_handshake", "crashed"}]_vars
  /\ [](pc = "process_format_message" => raised = "None" /\ columns = <<>>)

\* process_format_message still waits with nothing to read after more than
\* the handshake's timeout has passed since the handshake began
C22_Witness ==
  /\ pc = "process_format_message"
  /\ rx = <<>>
  /\ now - start_time > handshake_timeout

(* ---------------------------------------------------------------------- *)
\* C23: write_metafile on a data.csv whose first column holds numbers,
\* whatever the name of that column, writes the metadata from the
\* intervals of the first column: their mean is the last value less the
\* first over len(records) - 1, and there is no interval for one record or
\* none.
C23_FirstColumnIntervals ==
  /\ pc \in {"metafile_written", "metafile_key_error", "metafile_error"}
  /\ csv.kind = "table"
  /\ csv.header # <<>>
  /\ \A i \in 1..Len(csv.rows) : ~csv.rows[i][1].text
  => /\ pc = "metafile_written"
     /\ log.data_points_count = Len(csv.rows)
     /\ log.sampling_stats_micros.mean =
          IF IntervalCount(csv) = 0 THEN Zero
          ELSE Ratio(IntervalSum(csv), IntervalCount(csv))

(* ---------------------------------------------------------------------- *)
\* a line with a comma for each of its blanks
CommaForm(line) == [i \in 1..Len(line) |-> IF line[i] = SP THEN COMMA ELSE line[i]]

\* the step C24 is about: the loop reads a line of numbers delimited by
\* blanks, as many as the Schema has columns
C24_BlankLine ==
  /\ LoopReads
  /\ \E i \in 1..Len(NextLine) : NextLine[i] = SP
  /\ \A i \in 1..Len(NextLine) : NextLine[i] # COMMA
  /\ Len(Split(CommaForm(NextLine))) = Len(columns)
  /\ \A i \in 1..Len(columns) : IsFloat(Split(CommaForm(NextLine))[i])
  /\ Distinct(columns)

\* C24: a line of numbers delimited by blanks, as many as the Schema has
\* columns, appends to the buffer the one Record its comma-delimited form
\* appends, and is counted as accepted.
C24_WhitespaceAccepted ==
  [][C24_BlankLine
     => /\ buffer' = Append(buffer, ExpectedRow(columns, CommaForm(NextLine)))
        /\ accepted' = Append(accepted, ExpectedRow(columns, CommaForm(NextLine)))]_vars

(* ---------------------------------------------------------------------- *)
\* C25: a step taken where flush_buffer_to_dataframe is called with an
\* empty buffer changes neither self.data, nor self.columns, nor the
\* buffer, and hands no batch over; no batch handed over is ever empty.
C25_EmptyFlushNoOp ==
  /\ [][(pc \in {"flush_loop", "flush_final"} /\ buffer = <<>>)
         => (/\ data' = data
             /\ columns' = columns
             /\ buffer' = buffer
             /\ batches' = batches)]_vars
  /\ [](\A i \in 1..Len(batches) : batches[i] # <<>>)

\* the flush of the finally clause has run after the flush of the loop had
\* emptied the buffer, and the data is what it was
C25_Witness ==
  /\ pc = "close_connection"
  /\ exit = "stop"
  /\ buffer_size = 1
  /\ Len(accepted) = 1
  /\ Len(batches) = 1
  /\ data.rows = accepted
  /\ buffer = <<>>

====
